---- MODULE Spec2Model ----
(***************************************************************************)
(* Verification model of the mindformers training framework:               *)
(*   - GradAccumulator            (distri_cores/grad_handler.py)            *)
(*   - DistributedDataParallel    (pynative/distributed/...)                *)
(*   - ZeRO AdamW                 (pynative/optimizer/zero/adamw_zero.py)   *)
(*   - resume checkpoint lookup   (tools/resume_ckpt.py)                    *)
(*   - CheckpointMonitor, EvalCallBack, ProfileMonitor (core/callback/)     *)
(* Each component has its own specification; the variables of the other    *)
(* components stay at their idle value.                                     *)
(***************************************************************************)
EXTENDS Integers, Sequences, FiniteSets, TLC

VARIABLES
    accumulator,   \* the GradAccumulator object (fields of __init__)
    ga_ret,        \* value returned by the last GradAccumulator.__call__
    ga_hist        \* every grads tuple passed so far, in call order

gaVars == <<accumulator, ga_ret, ga_hist>>

VARIABLES
    ddp,           \* the DistributedDataParallel object
    sync_ctx,      \* position with respect to a `with ddp.no_sync():` block
    ddp_exc        \* exception raised by the last DistributedDataParallel call

ddpVars == <<ddp, sync_ctx, ddp_exc>>

VARIABLES
    adamw          \* the ZeRO AdamW optimizer: constructor arguments and fields

zeroVars == <<adamw>>

VARIABLES
    ckpt_fs,       \* checkpoint_dir: per rank, whether rank_<r>/ exists and its files
    resume_call    \* arguments and outcome of the get_resume_ckpt_list call

resumeVars == <<ckpt_fs, resume_call>>

VARIABLES
    meta_json,     \* per rank, the content of rank_<r>/meta.json
    meta_ret       \* value returned by get_minimum_epoch_step_and_ckpt

metaVars == <<meta_json, meta_ret>>

VARIABLES
    monitor,       \* the CheckpointMonitor: configuration and training position
    ckpt_dir       \* the files of the monitor's directory, oldest first

monitorVars == <<monitor, ckpt_dir>>

VARIABLES
    eval_cb,       \* the EvalCallBack object
    eval_run       \* training position and number of eval_func calls

evalVars == <<eval_cb, eval_run>>

VARIABLES
    profile_cb,    \* the ProfileMonitor object with its profiler
    profile_run    \* training position: step number, inside a step or between steps

profileVars == <<profile_cb, profile_run>>

vars == <<gaVars, ddpVars, zeroVars, resumeVars, metaVars, monitorVars, evalVars,
          profileVars>>

(***************************************************************************)
(* Bounds                                                                  *)
(***************************************************************************)
MaxMicroBatch == 3      \* micro_batch_num ranges over 1..MaxMicroBatch
MaxCalls == 4           \* calls of the accumulator per behaviour
NumGrads == 2           \* number of parameters (length of the grads tuple)

GradVals == {1, 2}      \* values a single gradient takes

NumModuleParams == 2    \* parameters of the wrapped module
MaxBufferCalls == 2     \* calls counted per buffer method
MaxHookCalls == 2       \* backward hook calls per behaviour

HookGrads == {2}        \* gradient values a hook receives

NumOptParams == 2       \* parameters handed to the optimizer
MaxShardSize == 3       \* data parallel world size ranges over 1..MaxShardSize
MaxDim0 == 4            \* first dimension of a parameter ranges over 1..MaxDim0
MaxOptSteps == 1        \* optimizer steps (construct calls) per behaviour

DeviceNum == 2          \* device_num: ranks are 0..DeviceNum-1
ResumeEpochs == 1       \* epochs of the checkpoint files range over 1..ResumeEpochs
MaxEpoch == 2           \* last_epoch in meta.json ranges over 1..MaxEpoch
MaxStep == 2            \* last_step in meta.json ranges over 1..MaxStep
GroupSize == 2          \* get_real_group_size(): meta.json is read for ranks 0..GroupSize-1
MaxKeep == 2            \* keep_checkpoint_max ranges over 1..MaxKeep
MaxPreexisting == 3     \* files in the monitor's directory when training starts
BatchNum == 2           \* cb_params.batch_num: steps per epoch
MaxTrainSteps == 4      \* steps of one training run
MaxTrainEpochs == 4     \* epochs of one training run
MaxFiles == 4           \* files present under checkpoint_dir at any time
MaxProfileStep == 4     \* start_step and stop_step range over 1..MaxProfileStep
MaxFirstStep == 2       \* cur_step_num of a run's first step ranges over 1..MaxFirstStep

(***************************************************************************)
(* Tensors.  A tensor is one scalar held as a fraction num/den, so that    *)
(* the true division of _mean_value is exact.                              *)
(***************************************************************************)
Tensor(n) == [num |-> n, den |-> 1]

TensorEq(a, b) == a.num * b.den = b.num * a.den

\* ops.ZerosLike
zeroslike(t) == Tensor(0)

\* ops.assign_add(inner, grad): inner += grad
assign_add(t, g) == [num |-> t.num + g.num * t.den, den |-> t.den]

\* GradAccumulator._init_inner_grads
_init_inner_grads(param) == zeroslike(param)

_clear_value_keep(inner) == inner

\* GradAccumulator._clear_value: assign zeros to the inner gradient
_clear_value(inner) == zeroslike(inner)

\* GradAccumulator._mean_value: inner_grads / accumulate_step
_mean_value(inner, accumulate_step) ==
    [num |-> inner.num, den |-> inner.den * accumulate_step]

NoneRet == [none |-> TRUE, val |-> <<>>]

window_full_ge(cnt, accumulate_step) == cnt >= accumulate_step

\* line 234: self.counter % self.accumulate_step == 0
window_full(cnt, accumulate_step) == cnt % accumulate_step = 0

\* GradAccumulator.__init__
GradAccumulator(micro_batch_num, op) ==
    [counter         |-> 0,
     accumulate_step |-> micro_batch_num,
     is_mean_op      |-> (op = "mean"),
     has_init        |-> FALSE,
     need_clear      |-> FALSE,
     inner_grads     |-> <<>>]

\* GradAccumulator.__call__: the object after the call and the value returned
GradAccumulator__call__(self, grads) ==
    LET s1 == IF ~self.has_init
              THEN [self EXCEPT !.inner_grads = [i \in DOMAIN grads |-> _init_inner_grads(grads[i])],
                                !.has_init = TRUE]
              ELSE self
        s2 == IF s1.need_clear
              THEN [s1 EXCEPT !.inner_grads = [i \in DOMAIN s1.inner_grads |->
                                                  _clear_value(s1.inner_grads[i])],
                              !.need_clear = FALSE]
              ELSE s1
        s3 == [s2 EXCEPT !.inner_grads = [i \in DOMAIN grads |->
                                             assign_add(s2.inner_grads[i], grads[i])],
                         !.counter = @ + 1]
        full == window_full(s3.counter, s3.accumulate_step)
        s4 == IF full
              THEN [s3 EXCEPT !.inner_grads =
                                  IF s3.is_mean_op
                                  THEN [i \in DOMAIN s3.inner_grads |->
                                           _mean_value(s3.inner_grads[i], s3.accumulate_step)]
                                  ELSE s3.inner_grads,
                              !.need_clear = TRUE]
              ELSE s3
    IN [self |-> s4,
        ret  |-> IF full THEN [none |-> FALSE, val |-> s4.inner_grads] ELSE NoneRet]

GAStart ==
    /\ \E n \in 1..MaxMicroBatch, op \in {"mean", "sum"} :
          accumulator = GradAccumulator(n, op)
    /\ ga_ret = NoneRet
    /\ ga_hist = <<>>

GAIdle ==
    /\ accumulator = GradAccumulator(1, "mean")
    /\ ga_ret = NoneRet
    /\ ga_hist = <<>>

\* one call accumulator(grads)
GACall ==
    /\ Len(ga_hist) < MaxCalls
    /\ \E grads \in [1..NumGrads -> {Tensor(v) : v \in GradVals}] :
          LET r == GradAccumulator__call__(accumulator, grads)
          IN /\ accumulator' = r.self
             /\ ga_ret' = r.ret
             /\ ga_hist' = Append(ga_hist, grads)

(***************************************************************************)
(* GradAccumulator claims                                                  *)
(***************************************************************************)
\* number of calls made so far
GACalls == Len(ga_hist)

\* C1: with micro_batch_num = N >= 1, the k-th call returns the accumulated
\* gradients if and only if k is a multiple of N; every other call returns None.
C1_ReturnsEveryNth ==
    GACalls >= 1 =>
        ((~ga_ret.none) <=> (GACalls % accumulator.accumulate_step = 0))

\* a second window has completed for N = 2 and the call before it returned None
C1_Witness ==
    /\ accumulator.accumulate_step = 2
    /\ GACalls = 4
    /\ ~ga_ret.none

RECURSIVE SumHist(_, _, _)
\* sum of the i-th gradient over calls lo..hi of the history
SumHist(i, lo, hi) ==
    IF lo > hi THEN 0 ELSE ga_hist[hi][i].num + SumHist(i, lo, hi - 1)

\* C2: a returned value is, per parameter, the sum of the gradients of the N
\* calls of the current window ('sum'), or that sum divided by N ('mean');
\* earlier windows contribute nothing.
C2_WindowSum ==
    (~ga_ret.none) =>
        LET N == accumulator.accumulate_step
            k == GACalls
        IN \A i \in 1..NumGrads :
              LET s == SumHist(i, k - N + 1, k)
              IN IF accumulator.is_mean_op
                 THEN TensorEq(ga_ret.val[i], [num |-> s, den |-> N])
                 ELSE TensorEq(ga_ret.val[i], Tensor(s))

\* a mean over the second window of two calls has been returned
C2_Witness ==
    /\ accumulator.accumulate_step = 2
    /\ accumulator.is_mean_op
    /\ GACalls = 4
    /\ ~ga_ret.none
    /\ ga_ret.val[1].den = 2

(***************************************************************************)
(* DistributedDataParallel                                                 *)
(***************************************************************************)
ParamDTypes == {"float16", "float32"}

\* a module parameter as __init__ sees it
ModuleParams ==
    [1..NumModuleParams -> [requires_grad : BOOLEAN, allreduce : BOOLEAN, dtype : ParamDTypes]]

Range(f) == {f[i] : i \in DOMAIN f}

\* ParamAndGradBuffer(...): a freshly built buffer; the method calls it
\* receives are counted (n_ready[i]: register_grad_ready calls for params[i])
ParamAndGradBuffer(param_dtype, grad_dtype, params) ==
    [param_dtype  |-> param_dtype,
     grad_dtype   |-> grad_dtype,
     params       |-> params,
     sync_enabled |-> TRUE,
     n_issue      |-> 0,
     n_final      |-> 0,
     n_reset      |-> 0,
     n_ready      |-> [i \in 1..Len(params) |-> 0]]

\* dense_params / expert_parallel_params of __init__: trainable parameters
\* split on their `allreduce` attribute, in module order
RECURSIVE select_params(_, _, _)
select_params(mp, n, dense) ==
    IF n = 0 THEN <<>>
    ELSE LET rest == select_params(mp, n - 1, dense)
         IN IF mp[n].requires_grad /\ (mp[n].allreduce = dense)
            THEN Append(rest, n) ELSE rest

\* (param_dtype, grad_dtype) of one parameter
dtype_key(mp, grad_reduce_in_fp32, p) ==
    <<mp[p].dtype, IF grad_reduce_in_fp32 THEN "float32" ELSE mp[p].dtype>>

\* keys of param_and_grad_dtype_to_params in insertion order
RECURSIVE dtype_keys(_, _, _)
dtype_keys(mp, fp32, input_params) ==
    IF input_params = <<>> THEN <<>>
    ELSE LET n    == Len(input_params)
             rest == dtype_keys(mp, fp32, SubSeq(input_params, 1, n - 1))
             k    == dtype_key(mp, fp32, input_params[n])
         IN IF k \in Range(rest) THEN rest ELSE Append(rest, k)

\* DistributedDataParallel.allocate_buffers_for_parameters: one buffer per
\* (param_dtype, grad_dtype) group
allocate_buffers_for_parameters(mp, fp32, input_params) ==
    LET keys == dtype_keys(mp, fp32, input_params)
    IN [j \in 1..Len(keys) |->
           ParamAndGradBuffer(keys[j][1], keys[j][2],
               SelectSeq(input_params, LAMBDA p : dtype_key(mp, fp32, p) = keys[j]))]

\* DistributedDataParallel.__init__
DistributedDataParallel(mp, grad_reduce_in_fp32, overlap_grad_reduce) ==
    [module                  |-> [p \in 1..NumModuleParams |->
                                     [requires_grad    |-> mp[p].requires_grad,
                                      grad_accumulated |-> FALSE,
                                      main_grad        |-> 0,
                                      n_hook           |-> 0]],
     overlap_grad_reduce     |-> overlap_grad_reduce,
     buffers                 |-> allocate_buffers_for_parameters(
                                     mp, grad_reduce_in_fp32, select_params(mp, NumModuleParams, TRUE)),
     expert_parallel_buffers |-> allocate_buffers_for_parameters(
                                     mp, grad_reduce_in_fp32, select_params(mp, NumModuleParams, FALSE))]

\* attribute lookup on the object: a name it does not have raises AttributeError
HasAttr(self, name) == name \in DOMAIN self

AllBuffers(self) == self.buffers \o self.expert_parallel_buffers

buffer_issue_grad_reduce(b) == [b EXCEPT !.n_issue = @ + 1]
buffer_final_grad_reduce(b) == [b EXCEPT !.n_final = @ + 1]
buffer_reset(b) == [b EXCEPT !.n_reset = @ + 1]

\* DistributedDataParallel.issue_grad_reduce: the loop runs over
\* self.buffers + self.expert_paralle_buffers
issue_grad_reduce(self) ==
    IF HasAttr(self, "buffers") /\ HasAttr(self, "expert_paralle_buffers")
    THEN [self |-> [self EXCEPT !.buffers = [j \in DOMAIN @ |-> buffer_issue_grad_reduce(@[j])],
                               !.expert_parallel_buffers =
                                   [j \in DOMAIN @ |-> buffer_issue_grad_reduce(@[j])]], exc |-> "None"]
    ELSE [self |-> self, exc |-> "AttributeError"]

\* DistributedDataParallel.final_grad_reduce
final_grad_reduce(self) ==
    IF HasAttr(self, "buffers") /\ HasAttr(self, "expert_parallel_buffers")
    THEN [self |-> [self EXCEPT !.buffers = [j \in DOMAIN @ |-> buffer_final_grad_reduce(@[j])],
                               !.expert_parallel_buffers =
                                   [j \in DOMAIN @ |-> buffer_final_grad_reduce(@[j])]], exc |-> "None"]
    ELSE [self |-> self, exc |-> "AttributeError"]

\* DistributedDataParallel.zero_grad_buffer
zero_grad_buffer(self) ==
    LET s1 == [self EXCEPT !.module = [p \in DOMAIN @ |->
                                IF @[p].requires_grad
                                THEN [@[p] EXCEPT !.grad_accumulated = FALSE]
                                ELSE @[p]]]
    IN [s1 EXCEPT !.buffers = [j \in DOMAIN @ |-> buffer_reset(@[j])],
                  !.expert_parallel_buffers = [j \in DOMAIN @ |-> buffer_reset(@[j])]]

\* param_to_buffer[param]: the list ("buffers" or "expert_parallel_buffers")
\* and the position of the buffer that was allocated with the parameter
param_to_buffer(self, param) ==
    CHOOSE k \in ({"buffers"} \X DOMAIN self.buffers)
                    \cup ({"expert_parallel_buffers"} \X DOMAIN self.expert_parallel_buffers) :
        param \in Range(self[k[1]][k[2]].params)

\* buffer.register_grad_ready(param)
buffer_register_grad_ready(b, param) ==
    [b EXCEPT !.n_ready = [i \in DOMAIN @ |->
                              IF b.params[i] = param THEN @[i] + 1 ELSE @[i]]]

param_hook_always_add(self, param, grad) ==
    LET k  == param_to_buffer(self, param)
        s1 == [self EXCEPT !.module[param].main_grad = @ + grad,
                           !.module[param].n_hook = @ + 1]
    IN IF self.overlap_grad_reduce
       THEN [s1 EXCEPT ![k[1]][k[2]] = buffer_register_grad_ready(@, param)]
       ELSE s1

\* the closure built by DistributedDataParallel._make_param_hook(param, ...),
\* called with the incoming gradient; n_hook counts its calls.  The gradient
\* is a whole number, which astype(buffer.grad_dtype) leaves as it is.
param_hook(self, param, grad) ==
    LET k  == param_to_buffer(self, param)
        s1 == [self EXCEPT !.module[param].main_grad =
                               IF ~self.module[param].grad_accumulated
                               THEN @ + grad ELSE @,
                           !.module[param].n_hook = @ + 1]
    IN IF self.overlap_grad_reduce
       THEN [s1 EXCEPT ![k[1]][k[2]] = buffer_register_grad_ready(@, param)]
       ELSE s1

\* a layer that adds its weight gradient into main_grad itself marks the
\* parameter: param.grad_accumulated = True
set_grad_accumulated(self, param) ==
    [self EXCEPT !.module[param].grad_accumulated = TRUE]

\* DistributedDataParallel.enable_sync
enable_sync(self, enable) ==
    [self EXCEPT !.buffers = [j \in DOMAIN @ |-> [@[j] EXCEPT !.sync_enabled = enable]],
                 !.expert_parallel_buffers =
                     [j \in DOMAIN @ |-> [@[j] EXCEPT !.sync_enabled = enable]]]

\* DistributedDataParallel.no_sync, before the yield
no_sync_enter(self) == enable_sync(self, FALSE)

no_sync_exit_normal_only(self, raised) ==
    IF raised THEN self ELSE enable_sync(self, TRUE)

\* DistributedDataParallel.no_sync, after the yield: the finally clause runs
\* whether or not the body raised
no_sync_exit(self, raised) == enable_sync(self, TRUE)

DDPStart ==
    /\ \E mp \in ModuleParams, fp32 \in BOOLEAN, overlap \in BOOLEAN :
          ddp = DistributedDataParallel(mp, fp32, overlap)
    /\ sync_ctx = "outside"
    /\ ddp_exc = "None"

DDPIdle ==
    /\ ddp = DistributedDataParallel(
                [p \in 1..NumModuleParams |->
                    [requires_grad |-> TRUE, allreduce |-> TRUE, dtype |-> "float32"]],
                FALSE, FALSE)
    /\ sync_ctx = "outside"
    /\ ddp_exc = "None"

\* a call may start unless an exception is propagating out of a no_sync body
CanCall == ~(sync_ctx = "body" /\ ddp_exc # "None")

ddp_issue_grad_reduce ==
    /\ CanCall
    /\ \A j \in DOMAIN AllBuffers(ddp) : AllBuffers(ddp)[j].n_issue < MaxBufferCalls
    /\ LET r == issue_grad_reduce(ddp)
       IN ddp' = r.self /\ ddp_exc' = r.exc
    /\ UNCHANGED sync_ctx

ddp_final_grad_reduce ==
    /\ CanCall
    /\ \A j \in DOMAIN AllBuffers(ddp) : AllBuffers(ddp)[j].n_final < MaxBufferCalls
    /\ LET r == final_grad_reduce(ddp)
       IN ddp' = r.self /\ ddp_exc' = r.exc
    /\ UNCHANGED sync_ctx

ddp_zero_grad_buffer ==
    /\ CanCall
    /\ \A j \in DOMAIN AllBuffers(ddp) : AllBuffers(ddp)[j].n_reset < MaxBufferCalls
    /\ ddp' = zero_grad_buffer(ddp)
    /\ ddp_exc' = "None"
    /\ UNCHANGED sync_ctx

\* parameters that carry the hook: register_hook_for_params
HookedParams(self) == {p \in DOMAIN self.module : self.module[p].requires_grad}

RECURSIVE HookCallsUpTo(_, _)
HookCallsUpTo(self, n) ==
    IF n = 0 THEN 0 ELSE HookCallsUpTo(self, n - 1) + self.module[n].n_hook

\* backward reaches a trainable parameter: its hook runs with the gradient
ParamHookCall(param, grad) ==
    /\ CanCall
    /\ HookCallsUpTo(ddp, NumModuleParams) < MaxHookCalls
    /\ param \in HookedParams(ddp)
    /\ ddp' = param_hook(ddp, param, grad)
    /\ UNCHANGED <<sync_ctx, ddp_exc>>

ddp_param_hook ==
    \E param \in 1..NumModuleParams : \E grad \in HookGrads : ParamHookCall(param, grad)

\* a layer accumulates a trainable parameter's gradient into main_grad itself
ddp_set_grad_accumulated ==
    /\ CanCall
    /\ \E param \in HookedParams(ddp) :
          /\ ~ddp.module[param].grad_accumulated
          /\ ddp' = set_grad_accumulated(ddp, param)
    /\ UNCHANGED <<sync_ctx, ddp_exc>>

\* `with ddp.no_sync():` is entered
ddp_no_sync_enter ==
    /\ sync_ctx # "body"
    /\ ddp' = no_sync_enter(ddp)
    /\ sync_ctx' = "body"
    /\ ddp_exc' = "None"

\* the body of the with block raises
ddp_body_raise ==
    /\ sync_ctx = "body"
    /\ ddp_exc = "None"
    /\ ddp_exc' = "RuntimeError"
    /\ UNCHANGED <<ddp, sync_ctx>>

\* the with block is left, normally or by the propagating exception
ddp_no_sync_exit ==
    /\ sync_ctx = "body"
    /\ ddp' = no_sync_exit(ddp, ddp_exc # "None")
    /\ sync_ctx' = IF ddp_exc # "None" THEN "left_by_exception" ELSE "left"
    /\ UNCHANGED ddp_exc

\* C3: issue_grad_reduce() issues the reduction for each buffer of the wrapper:
\* every buffer in self.buffers and self.expert_parallel_buffers receives
\* exactly one issue_grad_reduce() call.
C3_EveryBufferIssued ==
    [][ddp_issue_grad_reduce =>
          \A j \in DOMAIN AllBuffers(ddp) :
             AllBuffers(ddp')[j].n_issue = AllBuffers(ddp)[j].n_issue + 1]_vars

\* C12: the backward hook of a trainable parameter adds the incoming gradient
\* into the parameter's main_grad only while grad_accumulated is False, and
\* calls register_grad_ready on the parameter's own buffer (and on no other)
\* exactly when overlap_grad_reduce is enabled; zero_grad_buffer sets
\* grad_accumulated to False on every trainable parameter and resets every
\* dense and expert-parallel buffer once.
C12_HookAndZero ==
    [][/\ \A p \in HookedParams(ddp) : \A g \in HookGrads :
             ParamHookCall(p, g) =>
                /\ ddp'.module[p].main_grad =
                      ddp.module[p].main_grad +
                         (IF ddp.module[p].grad_accumulated THEN 0 ELSE g)
                /\ \A j \in DOMAIN AllBuffers(ddp) :
                      \A i \in DOMAIN AllBuffers(ddp)[j].params :
                         AllBuffers(ddp')[j].n_ready[i] =
                            AllBuffers(ddp)[j].n_ready[i] +
                               (IF ddp.overlap_grad_reduce /\ AllBuffers(ddp)[j].params[i] = p
                                THEN 1 ELSE 0)
       /\ ddp_zero_grad_buffer =>
             /\ \A p \in HookedParams(ddp) : ~ddp'.module[p].grad_accumulated
             /\ \A j \in DOMAIN AllBuffers(ddp) :
                   AllBuffers(ddp')[j].n_reset = AllBuffers(ddp)[j].n_reset + 1]_vars

\* a hook added a gradient, a later call of it was skipped because the layer
\* had accumulated the gradient itself, zero_grad_buffer then cleared the
\* flag; overlap is on and the parameter's expert buffer was notified twice
C12_Witness ==
    \E p \in HookedParams(ddp) :
       /\ ddp.module[p].n_hook = 2
       /\ ddp.module[p].main_grad = 2
       /\ ~ddp.module[p].grad_accumulated
       /\ ddp.overlap_grad_reduce
       /\ ddp.buffers # <<>>
       /\ \E j \in DOMAIN ddp.expert_parallel_buffers :
             /\ ddp.expert_parallel_buffers[j].n_reset = 1
             /\ \E i \in DOMAIN ddp.expert_parallel_buffers[j].params :
                   /\ ddp.expert_parallel_buffers[j].params[i] = p
                   /\ ddp.expert_parallel_buffers[j].n_ready[i] = 2

\* C4: while the body of no_sync() runs sync_enabled is False on every dense
\* and expert-parallel buffer; once the context is left, normally or through
\* an exception raised in the body, sync_enabled is True on every buffer.
C4_NoSync ==
    /\ sync_ctx = "body" =>
          \A j \in DOMAIN AllBuffers(ddp) : ~AllBuffers(ddp)[j].sync_enabled
    /\ sync_ctx \in {"left", "left_by_exception"} =>
          \A j \in DOMAIN AllBuffers(ddp) : AllBuffers(ddp)[j].sync_enabled

\* the context was left by an exception, with dense and expert buffers present
C4_Witness ==
    /\ sync_ctx = "left_by_exception"
    /\ ddp.buffers # <<>>
    /\ ddp.expert_parallel_buffers # <<>>
    /\ \A j \in DOMAIN AllBuffers(ddp) : AllBuffers(ddp)[j].sync_enabled

(***************************************************************************)
(* ZeRO AdamW                                                              *)
(***************************************************************************)
ZeroLevels == {"z1", "z2", "z3"}

CellClasses == {"ColumnParallelLinear", "RowParallelLinear", "LayerNorm"}

\* a network parameter: its name is its index; shape0 is shape[0]; cell_class
\* and use_zero3 describe the cell that owns it
NetParams ==
    [1..NumOptParams -> [shape0 : 1..MaxDim0, cell_class : CellClasses, use_zero3 : BOOLEAN]]

\* _regist_hook_for_cells.recursion_cells: the cells collected in z3_optim_cells
is_z3_optim_cell(prm) ==
    prm.cell_class \in {"ColumnParallelLinear", "RowParallelLinear"} /\ prm.use_zero3

\* _regist_hook_for_cells: self.zero3_parameters, the names of the parameters
\* of the collected cells
_regist_hook_for_cells(params) ==
    {i \in DOMAIN params : is_z3_optim_cell(params[i])}

_parameter_status_split_both(zero_level, shard_size, params, zero3_parameters) ==
    [_parameter_splited |->
        [i \in DOMAIN params |-> zero_level = "z3" /\ i \in zero3_parameters],
     _status_splited |->
        [i \in DOMAIN params |-> params[i].shape0 % shard_size = 0]]

\* AdamW._parameter_status_split: both flag lists start all False
_parameter_status_split(zero_level, shard_size, params, zero3_parameters) ==
    [_parameter_splited |->
        [i \in DOMAIN params |->
            IF zero_level = "z3" THEN i \in zero3_parameters ELSE FALSE],
     _status_splited |->
        [i \in DOMAIN params |->
            IF zero_level = "z3"
            THEN IF i \in zero3_parameters
                 THEN FALSE
                 ELSE params[i].shape0 % shard_size = 0
            ELSE params[i].shape0 % shard_size = 0]]

_regist_hook_for_params_any_level(zero_level, parameter_splited, status_splited) ==
    [i \in DOMAIN parameter_splited |->
        IF parameter_splited[i] \/ status_splited[i]
        THEN <<"reduce_scatter_hook">>
        ELSE <<"reduce_hook">>]

\* AdamW._regist_hook_for_params: the hooks registered on each parameter
_regist_hook_for_params(zero_level, parameter_splited, status_splited) ==
    [i \in DOMAIN parameter_splited |->
        IF (parameter_splited[i] \/ status_splited[i]) /\ zero_level \in {"z2", "z3"}
        THEN <<"reduce_scatter_hook">>
        ELSE <<"reduce_hook">>]

_init_all_gather_ops_always(status_splited) ==
    [i \in DOMAIN status_splited |-> TRUE]

\* AdamW._init_all_gather_ops
_init_all_gather_ops(status_splited) ==
    [i \in DOMAIN status_splited |-> status_splited[i]]

\* AdamW._init_momentum: first dimension of each moment
_init_momentum(params, status_splited, shard_size) ==
    [i \in DOMAIN params |->
        IF status_splited[i] THEN params[i].shape0 \div shard_size ELSE params[i].shape0]

\* the arguments of the constructor, before it runs
AdamWArgs(params, zero_level, shard_size, allreduce_after_grad_accumulation) ==
    [constructed                       |-> FALSE,
     zero_level                        |-> zero_level,
     shard_size                        |-> shard_size,
     allreduce_after_grad_accumulation |-> allreduce_after_grad_accumulation,
     _parameters                       |-> params,
     zero3_parameters                  |-> {},
     _parameter_splited                |-> [i \in DOMAIN params |-> FALSE],
     _status_splited                   |-> [i \in DOMAIN params |-> FALSE],
     all_gather_ops                    |-> [i \in DOMAIN params |-> FALSE],
     hooks                             |-> [i \in DOMAIN params |-> <<>>],
     moments1                          |-> <<>>,
     moments2                          |-> <<>>,
     global_step                       |-> 0,
     loaded                            |-> <<>>]

\* AdamW.__init__
AdamW__init__(self) ==
    LET z3p   == IF self.zero_level = "z3"
                 THEN _regist_hook_for_cells(self._parameters) ELSE {}
        split == _parameter_status_split(self.zero_level, self.shard_size,
                                         self._parameters, z3p)
        hooks == IF ~self.allreduce_after_grad_accumulation
                 THEN _regist_hook_for_params(self.zero_level,
                          split._parameter_splited, split._status_splited)
                 ELSE self.hooks
    IN [self EXCEPT !.constructed = TRUE,
                    !.zero3_parameters = z3p,
                    !._parameter_splited = split._parameter_splited,
                    !._status_splited = split._status_splited,
                    !.hooks = hooks,
                    !.all_gather_ops = _init_all_gather_ops(split._status_splited),
                    !.moments1 = _init_momentum(self._parameters, split._status_splited,
                                                self.shard_size),
                    !.moments2 = _init_momentum(self._parameters, split._status_splited,
                                                self.shard_size)]

ZeroStart ==
    \E params \in NetParams, zl \in ZeroLevels, ss \in 1..MaxShardSize, ar \in BOOLEAN :
        adamw = AdamWArgs(params, zl, ss, ar)

ZeroIdle ==
    adamw = AdamWArgs([i \in 1..NumOptParams |->
                          [shape0 |-> 1, cell_class |-> "LayerNorm", use_zero3 |-> FALSE]],
                      "z1", 1, FALSE)

\* _split_params: first dimension of split(param)[shard_id], P.Split(0, shard_size)
_split_params(shard_size, shape0, need_split) ==
    IF need_split THEN shape0 \div shard_size ELSE shape0

\* comm_func.all_gather_into_tensor over the group of shard_size ranks: the
\* shards are concatenated along the first dimension
all_gather_into_tensor(shard_size, shape0) == shape0 * shard_size

\* _update_params_opt_parallel: whether the update was all-gathered and the
\* first dimension of the value handed to param.assign_value
_update_params_opt_parallel(shard_size, update_shape0, all_gather) ==
    [all_gather |-> all_gather,
     shape0     |-> IF all_gather
                    THEN all_gather_into_tensor(shard_size, update_shape0)
                    ELSE update_shape0]

\* first dimension of an elementwise operation on two tensors (0: the shapes
\* do not broadcast)
broadcast_shape0(a, b) ==
    IF a = b THEN a ELSE IF a = 1 THEN b ELSE IF b = 1 THEN a ELSE 0

\* _update_by_opt: first dimension of return_param, which combines the split
\* parameter with both moments elementwise
_update_by_opt(parameters, exp_avg, exp_avg_sq) ==
    broadcast_shape0(parameters, broadcast_shape0(exp_avg, exp_avg_sq))

\* AdamW.construct, as far as shapes go: params are split by _status_splited,
\* _adamw_opt runs on each split parameter with its moments, the last
\* hyper_map pairs each update with all_gather_ops[i]
AdamW_construct(self) ==
    LET params == [i \in DOMAIN self._parameters |->
                      _split_params(self.shard_size, self._parameters[i].shape0,
                                    self._status_splited[i])]
        optim_result == [i \in DOMAIN params |->
                            _update_by_opt(params[i], self.moments1[i], self.moments2[i])]
    IN [self EXCEPT !.global_step = @ + 1,
                    !.loaded = [i \in DOMAIN self._parameters |->
                                   _update_params_opt_parallel(self.shard_size,
                                       optim_result[i], self.all_gather_ops[i])]]

\* the optimizer is constructed
adamw_init ==
    /\ ~adamw.constructed
    /\ adamw' = AdamW__init__(adamw)

\* one optimizer step: construct(grads)
adamw_construct ==
    /\ adamw.constructed
    /\ adamw.global_step < MaxOptSteps
    /\ adamw' = AdamW_construct(adamw)

\* shape[0] % shard_size == 0
Divisible(i) == adamw._parameters[i].shape0 % adamw.shard_size = 0

\* the parameter belongs to a ZeRO-3 cell of the network
InZero3Cell(i) == is_z3_optim_cell(adamw._parameters[i])

\* C5: after the constructor, under z1 and z2 _parameter_splited[i] is False and
\* _status_splited[i] is True exactly when shape[0] is divisible by the shard
\* size; under z3 a parameter of a ZeRO-3 cell has _parameter_splited[i] True and
\* _status_splited[i] False, any other parameter is flagged as under z1/z2; no
\* parameter ever has both flags True.
C5_SplitFlags ==
    /\ \A i \in 1..NumOptParams :
          ~(adamw._parameter_splited[i] /\ adamw._status_splited[i])
    /\ adamw.constructed =>
          \A i \in 1..NumOptParams :
             IF adamw.zero_level = "z3" /\ InZero3Cell(i)
             THEN adamw._parameter_splited[i] /\ ~adamw._status_splited[i]
             ELSE /\ ~adamw._parameter_splited[i]
                  /\ adamw._status_splited[i] <=> Divisible(i)

\* z3, constructed: a ZeRO-3 cell's parameter with divisible shape[0] next to an
\* ordinary parameter whose optimizer state is split
C5_Witness ==
    /\ adamw.constructed
    /\ adamw.zero_level = "z3"
    /\ adamw.shard_size > 1
    /\ \E i, j \in 1..NumOptParams :
          /\ InZero3Cell(i) /\ Divisible(i) /\ adamw._parameter_splited[i]
          /\ ~InZero3Cell(j) /\ adamw._status_splited[j]

\* C6: with allreduce_after_grad_accumulation False every parameter gets exactly
\* one gradient hook, the reduce-scatter hook iff the parameter is parameter-split
\* or status-split and zero_level is z2 or z3, the all-reduce hook otherwise;
\* with allreduce_after_grad_accumulation True no hook is registered.
C6_GradHooks ==
    adamw.constructed =>
        \A i \in 1..NumOptParams :
           IF adamw.allreduce_after_grad_accumulation
           THEN adamw.hooks[i] = <<>>
           ELSE /\ Len(adamw.hooks[i]) = 1
                /\ adamw.hooks[i][1] =
                      IF /\ adamw._parameter_splited[i] \/ adamw._status_splited[i]
                         /\ adamw.zero_level \in {"z2", "z3"}
                      THEN "reduce_scatter_hook"
                      ELSE "reduce_hook"

\* z1 with a status-split parameter: its gradient is all-reduced
C6_Witness ==
    /\ adamw.constructed
    /\ adamw.zero_level = "z1"
    /\ ~adamw.allreduce_after_grad_accumulation
    /\ \E i \in 1..NumOptParams :
          adamw._status_splited[i] /\ adamw.hooks[i] = <<"reduce_hook">>

\* C13: after the constructor all_gather_ops[i] equals _status_splited[i] for
\* every parameter; a parameter whose optimizer state is sharded has both
\* moments with first dimension shape[0] // shard_size, any other parameter's
\* moments have the parameter's own first dimension; at the end of construct
\* the update is all-gathered iff the state is sharded, and the value loaded
\* into the parameter has the parameter's full first dimension.
C13_ShardAwareGather ==
    adamw.constructed =>
        \A i \in 1..NumOptParams :
           /\ adamw.all_gather_ops[i] = adamw._status_splited[i]
           /\ adamw.moments1[i] = adamw.moments2[i]
           /\ adamw.moments1[i] =
                 IF adamw._status_splited[i]
                 THEN adamw._parameters[i].shape0 \div adamw.shard_size
                 ELSE adamw._parameters[i].shape0
           /\ adamw.global_step > 0 =>
                 /\ adamw.loaded[i].all_gather = adamw._status_splited[i]
                 /\ adamw.loaded[i].shape0 = adamw._parameters[i].shape0

\* an optimizer step has run over more than one shard: one parameter's update
\* was gathered from shards smaller than the parameter, another parameter,
\* whose first dimension the shard size does not divide, was loaded as it is
C13_Witness ==
    /\ adamw.constructed
    /\ adamw.global_step > 0
    /\ adamw.shard_size > 1
    /\ \E i, j \in 1..NumOptParams :
          /\ adamw.loaded[i].all_gather
          /\ adamw.moments1[i] < adamw._parameters[i].shape0
          /\ adamw.moments1[i] > 0
          /\ ~adamw.loaded[j].all_gather
          /\ ~Divisible(j)
          /\ adamw.moments2[j] = adamw._parameters[j].shape0

(***************************************************************************)
(* Resume checkpoint lookup (tools/resume_ckpt.py)                          *)
(*                                                                         *)
(* A file name "{prefix}_rank_{rank}-{epoch}_{step}.{ext}" is held as the  *)
(* record of its parts.                                                    *)
(***************************************************************************)
Ranks == 0..(DeviceNum - 1)

CkptPrefix == "llama"

\* steps of the checkpoint files
ResumeSteps == {1, 2}

FileNames ==
    [prefix : {CkptPrefix, "other"}, rank : Ranks,
     epoch : 1..ResumeEpochs, step : ResumeSteps, ext : {"ckpt", "tmp"}]

CkptName(prefix, rank, epoch, step) ==
    [prefix |-> prefix, rank |-> rank, epoch |-> epoch, step |-> step, ext |-> "ckpt"]

\* the files that may appear in rank_<r>/: the checkpoints rank r saves and, in
\* rank_0/, three strangers: another prefix, another rank's name, another
\* extension
DirFiles(r) ==
    {CkptName(CkptPrefix, r, e, st) : e \in 1..ResumeEpochs, st \in ResumeSteps}
    \cup IF r = 0
         THEN {CkptName("other", r, 1, 1),
               CkptName(CkptPrefix, (r + 1) % DeviceNum, 1, 1),
               [CkptName(CkptPrefix, r, 1, 1) EXCEPT !.ext = "tmp"]}
         ELSE {}

\* get_epoch_and_step_from_ckpt_name
get_epoch_and_step_from_ckpt_name(f) == <<f.epoch, f.step>>

\* get_rank_id_from_ckpt_name
get_rank_id_from_ckpt_name(f) == f.rank

\* replace_rank_id_in_ckpt_name
replace_rank_id_in_ckpt_name(f, rank_id) == [f EXCEPT !.rank = rank_id]

\* ckpt_file.startswith(ckpt_prefix_tmp), ckpt_prefix_tmp being the part of
\* last_ckpt_file before "-" with its rank replaced by rank_id_tmp
starts_with_prefix(f, last_ckpt_file, rank_id_tmp) ==
    f.prefix = last_ckpt_file.prefix /\ f.rank = rank_id_tmp

\* ckpt_file.endswith(".ckpt")
ends_with_ckpt(f) == f.ext = "ckpt"

\* (epoch, step) pairs compared as on lines 228 and 201-202
EpochStepLE(a, b) == a[1] < b[1] \/ (a[1] = b[1] /\ a[2] <= b[2])

EpochStepLT(a, b) == a[1] < b[1] \/ (a[1] = b[1] /\ a[2] < b[2])

\* os.path.exists(os.path.join(checkpoint_dir, f"rank_{r}", f))
path_exists(fs, r, f) == fs[r].exists /\ f \in fs[r].files

check_checkpoints_nonempty(checkpoints, rank_size) == checkpoints # {}

\* check_checkpoints_by_rank
check_checkpoints_by_rank(checkpoints, rank_size) ==
    IF checkpoints = {} THEN FALSE
    ELSE LET rank_id_set == {get_rank_id_from_ckpt_name(c) : c \in checkpoints}
         IN /\ Cardinality(rank_id_set) = rank_size
            /\ (CHOOSE m \in rank_id_set : \A x \in rank_id_set : x <= m) = rank_size - 1

\* checkpoints.sort(key=get_rank_id_from_ckpt_name); checkpoints[0]
first_by_rank(checkpoints) ==
    CHOOSE c \in checkpoints :
        \A x \in checkpoints : get_rank_id_from_ckpt_name(c) <= get_rank_id_from_ckpt_name(x)

RECURSIVE sort_by_epoch_step(_)
\* resume_ckpt_list.sort(key=get_epoch_and_step_from_ckpt_name)
sort_by_epoch_step(paths) ==
    IF paths = {} THEN <<>>
    ELSE LET m == CHOOSE x \in paths : \A y \in paths :
                     EpochStepLE(get_epoch_and_step_from_ckpt_name(x.file),
                                 get_epoch_and_step_from_ckpt_name(y.file))
         IN <<m>> \o sort_by_epoch_step(paths \ {m})

\* get_resume_ckpt_list, first loop: valid_ckpts as a map from "epoch_step" keys
\* to the files collected under them
valid_ckpts(fs, last_ckpt_file, device_num) ==
    LET last == get_epoch_and_step_from_ckpt_name(last_ckpt_file)
    IN [key \in (1..ResumeEpochs) \X ResumeSteps |->
           {f \in UNION {{g \in fs[r].files : starts_with_prefix(g, last_ckpt_file, r)}
                         : r \in 0..(device_num - 1)} :
               /\ ends_with_ckpt(f)
               /\ get_epoch_and_step_from_ckpt_name(f) = key
               /\ EpochStepLE(key, last)}]

\* get_resume_ckpt_list
get_resume_ckpt_list(fs, last_ckpt_file, rank_id, device_num) ==
    IF \E r \in 0..(device_num - 1) : ~fs[r].exists
    THEN [kind |-> "RuntimeError", list |-> <<>>]
    ELSE LET valid  == valid_ckpts(fs, last_ckpt_file, device_num)
             passed == {key \in DOMAIN valid :
                           check_checkpoints_by_rank(valid[key], device_num)}
             paths  == {[dir  |-> rank_id,
                         file |-> replace_rank_id_in_ckpt_name(first_by_rank(valid[key]),
                                                               rank_id)] : key \in passed}
         IN IF \E q \in paths : ~path_exists(fs, q.dir, q.file)
            THEN [kind |-> "ValueError", list |-> <<>>]
            ELSE IF paths = {}
            THEN [kind |-> "RuntimeError", list |-> <<>>]
            ELSE [kind |-> "list", list |-> sort_by_epoch_step(paths)]

NoCall ==
    [kind |-> "none", list |-> <<>>,
     last_ckpt_file |-> CkptName(CkptPrefix, 0, 1, 1), rank_id |-> 0]

ResumeStart ==
    /\ ckpt_fs = [r \in Ranks |-> [exists |-> FALSE, files |-> {}]]
    /\ resume_call = NoCall

ResumeIdle == ResumeStart

RECURSIVE FilesUpTo(_, _)
\* number of files in rank_0/ .. rank_<n-1>/
FilesUpTo(fs, n) ==
    IF n = 0 THEN 0 ELSE Cardinality(fs[n - 1].files) + FilesUpTo(fs, n - 1)

TotalFiles(fs) == FilesUpTo(fs, DeviceNum)

\* a file appears in rank_<r>/: a checkpoint saved by that rank, or any other
\* file (another prefix, another rank's name, another extension)
fs_add_file ==
    /\ resume_call.kind = "none"
    /\ TotalFiles(ckpt_fs) < MaxFiles
    /\ \E r \in Ranks : \E f \in DirFiles(r) :
          /\ f \notin ckpt_fs[r].files
          /\ ckpt_fs' = [ckpt_fs EXCEPT ![r] = [exists |-> TRUE, files |-> @.files \cup {f}]]
    /\ UNCHANGED resume_call

\* rank_<r>/ is created empty
fs_make_dir ==
    /\ resume_call.kind = "none"
    /\ \E r \in Ranks :
          /\ ~ckpt_fs[r].exists
          /\ ckpt_fs' = [ckpt_fs EXCEPT ![r].exists = TRUE]
    /\ UNCHANGED resume_call

\* get_resume_ckpt_list(checkpoint_dir, last_ckpt_file, rank_id, device_num)
resume_get_list ==
    /\ resume_call.kind = "none"
    /\ \E q \in Ranks, e \in 1..ResumeEpochs, st \in ResumeSteps, rank_id \in Ranks :
          LET last == CkptName(CkptPrefix, q, e, st)
              r    == get_resume_ckpt_list(ckpt_fs, last, rank_id, DeviceNum)
          IN resume_call' = [kind |-> r.kind, list |-> r.list,
                             last_ckpt_file |-> last, rank_id |-> rank_id]
    /\ UNCHANGED ckpt_fs

\* (epoch, step) is resumable: not after last_ckpt_file and present, under its
\* prefix, for every rank
Qualifies(e, st) ==
    /\ EpochStepLE(<<e, st>>, <<resume_call.last_ckpt_file.epoch,
                               resume_call.last_ckpt_file.step>>)
    /\ \A r \in Ranks :
          path_exists(ckpt_fs, r, CkptName(resume_call.last_ckpt_file.prefix, r, e, st))

MetaRanks == 0..(GroupSize - 1)

JNone == [t |-> "none", i |-> 0]

JInt(n) == [t |-> "int", i |-> n]

JStr == [t |-> "str", i |-> 0]

\* values of last_epoch and last_step found in a meta.json
EpochValues == {JNone, JStr} \cup {JInt(n) : n \in 1..MaxEpoch}

StepValues == {JNone, JStr} \cup {JInt(n) : n \in 1..MaxStep}

\* values of last_ckpt_file found in the meta.json of rank r: absent, a number,
\* a name of the form {prefix}-{epoch}_{step}.ckpt, a name of another form
CkptFileValues(r) ==
    {[t |-> "none", s |-> CkptName(CkptPrefix, r, 1, 1)],
     [t |-> "int", s |-> CkptName(CkptPrefix, r, 1, 1)],
     [t |-> "str", s |-> CkptName(CkptPrefix, r, 1, 1)],
     [t |-> "str", s |-> [CkptName(CkptPrefix, r, 1, 1) EXCEPT !.ext = "tmp"]]}

\* the states of rank_<r>/meta.json: no file, a file json.load fails on, the
\* empty object, an object with the three keys as above
MetaFiles(r) ==
    {[state |-> st, last_epoch |-> JNone, last_step |-> JNone,
      last_ckpt_file |-> [t |-> "none", s |-> CkptName(CkptPrefix, r, 1, 1)]]
        : st \in {"missing", "unparsable", "empty_dict"}}
    \cup [state : {"dict"}, last_epoch : EpochValues, last_step : StepValues,
          last_ckpt_file : CkptFileValues(r)]

\* check_ckpt_file_name: the name has the form {prefix}-{epoch}_{step}.ckpt
check_ckpt_file_name(f) == f.ext = "ckpt"

\* check_meta_info
check_meta_info(epoch, step, ckpt_file) ==
    IF ~(epoch.t = "int") \/ ~(step.t = "int") THEN FALSE
    ELSE IF ~(ckpt_file.t = "str") THEN FALSE
    ELSE IF ~check_ckpt_file_name(ckpt_file.s) THEN FALSE
    ELSE TRUE

NoneTriple ==
    [is_none |-> TRUE, last_epoch |-> 0, last_step |-> 0,
     last_ckpt_file |-> CkptName(CkptPrefix, 0, 1, 1)]

is_earlier_either(epoch, step, last_epoch, last_step) ==
    epoch < last_epoch \/ step < last_step

\* lines 201-202: epoch < last_epoch or (epoch == last_epoch and step < last_step)
is_earlier(epoch, step, last_epoch, last_step) ==
    epoch < last_epoch \/ (epoch = last_epoch /\ step < last_step)

RECURSIVE get_minimum_loop(_, _)
\* the loop of get_minimum_epoch_step_and_ckpt over ranks 0..n-1
get_minimum_loop(metas, n) ==
    IF n = 0 THEN NoneTriple
    ELSE LET last == get_minimum_loop(metas, n - 1)
             m    == metas[n - 1]
         IN IF m.state = "missing" THEN last
            ELSE IF m.state = "unparsable" THEN last
            ELSE IF m.state = "empty_dict" THEN last
            ELSE IF ~check_meta_info(m.last_epoch, m.last_step, m.last_ckpt_file) THEN last
            ELSE IF last.is_none
                    \/ is_earlier(m.last_epoch.i, m.last_step.i, last.last_epoch, last.last_step)
                 THEN [is_none        |-> FALSE,
                       last_epoch     |-> m.last_epoch.i,
                       last_step      |-> m.last_step.i,
                       last_ckpt_file |-> m.last_ckpt_file.s]
                 ELSE last

\* get_minimum_epoch_step_and_ckpt
get_minimum_epoch_step_and_ckpt(metas) == get_minimum_loop(metas, GroupSize)

NotCalled == [called |-> FALSE, ret |-> NoneTriple]

MetaStart ==
    /\ \E content \in [MetaRanks -> MetaFiles(0)] :
          meta_json = [r \in MetaRanks |->
                         [content[r] EXCEPT !.last_ckpt_file.s.rank = r]]
    /\ meta_ret = NotCalled

MetaIdle ==
    /\ meta_json = [r \in MetaRanks |->
                      [state |-> "missing", last_epoch |-> JNone, last_step |-> JNone,
                       last_ckpt_file |-> [t |-> "none", s |-> CkptName(CkptPrefix, r, 1, 1)]]]
    /\ meta_ret = NotCalled

\* get_minimum_epoch_step_and_ckpt(checkpoint_dir)
meta_get_minimum ==
    /\ ~meta_ret.called
    /\ meta_ret' = [called |-> TRUE, ret |-> get_minimum_epoch_step_and_ckpt(meta_json)]
    /\ UNCHANGED meta_json

\* rank r has a readable, well-formed meta.json
ValidMeta(r) ==
    /\ meta_json[r].state = "dict"
    /\ meta_json[r].last_epoch.t = "int"
    /\ meta_json[r].last_step.t = "int"
    /\ meta_json[r].last_ckpt_file.t = "str"
    /\ meta_json[r].last_ckpt_file.s.ext = "ckpt"

MonitorPrefix == "CKP_rank_0"

\* names that occur in the directory: the monitor's own and one stranger
DirNames ==
    [prefix : {MonitorPrefix}, epoch : 1..(MaxTrainSteps \div BatchNum), step : 1..BatchNum]
    \cup {[prefix |-> "other", epoch |-> 1, step |-> 1]}

RECURSIVE DirsOfLen(_)
\* directories of n distinct files
DirsOfLen(n) ==
    IF n = 0 THEN {<<>>}
    ELSE UNION {{Append(d, f) : f \in DirNames \ Range(d)} : d \in DirsOfLen(n - 1)}

\* CheckpointManager.update_ckpoint_filelist(directory, prefix): the files of
\* the directory that carry the prefix
update_ckpoint_filelist(dir, prefix) ==
    SelectSeq(dir, LAMBDA f : f.prefix = prefix)

\* CheckpointManager.ckpoint_num
ckpoint_num(filelist) == Len(filelist)

\* CheckpointManager.remove_oldest_ckpoint_file: delete the listed file with the
\* oldest modification time
remove_oldest_ckpoint_file(dir, filelist) ==
    SelectSeq(dir, LAMBDA f : f # filelist[1])

\* save_checkpoint(network, cur_file, ...): create or overwrite cur_file
write_file(dir, cur_file) ==
    Append(SelectSeq(dir, LAMBDA f : f # cur_file), cur_file)

\* CheckpointMonitor.__init__ followed by the start of training
CheckpointMonitor(keep_checkpoint_max) ==
    [_prefix                       |-> MonitorPrefix,
     keep_checkpoint_max           |-> keep_checkpoint_max,
     keep_checkpoint_per_n_minutes |-> 0,
     _last_triggered_step          |-> 0,
     cur_step_num                  |-> 0,
     cur_epoch_num                 |-> 0,
     saves                         |-> 0]

\* CheckpointMonitor.save_checkpoint: the directory after the save
save_checkpoint(self, dir) ==
    LET step_num_in_epoch == ((self.cur_step_num - 1) % BatchNum) + 1
        cur_ckpoint_file  == [prefix |-> self._prefix, epoch |-> self.cur_epoch_num,
                              step |-> step_num_in_epoch]
        filelist          == update_ckpoint_filelist(dir, self._prefix)
        dir1              == IF /\ self.keep_checkpoint_max # 0
                                /\ 0 < self.keep_checkpoint_max
                                /\ self.keep_checkpoint_max <= ckpoint_num(filelist)
                             THEN remove_oldest_ckpoint_file(dir, filelist)
                             ELSE dir
    IN write_file(dir1, cur_ckpoint_file)

MonitorStart ==
    /\ \E m \in 1..MaxKeep : monitor = CheckpointMonitor(m)
    /\ \E n \in 0..MaxPreexisting : ckpt_dir \in DirsOfLen(n)

MonitorIdle ==
    /\ monitor = CheckpointMonitor(1)
    /\ ckpt_dir = <<>>

\* a training step ends and _save_ckpt saves a checkpoint
monitor_step_save ==
    /\ monitor.cur_step_num < MaxTrainSteps
    /\ LET step == monitor.cur_step_num + 1
           m1   == [monitor EXCEPT !.cur_step_num = step,
                                   !.cur_epoch_num = ((step - 1) \div BatchNum) + 1]
       IN /\ ckpt_dir' = save_checkpoint(m1, ckpt_dir)
          /\ monitor' = [m1 EXCEPT !._last_triggered_step = step, !.saves = @ + 1]

\* a training step ends and no checkpoint is due
monitor_step_skip ==
    /\ monitor.cur_step_num < MaxTrainSteps
    /\ LET step == monitor.cur_step_num + 1
       IN monitor' = [monitor EXCEPT !.cur_step_num = step,
                                     !.cur_epoch_num = ((step - 1) \div BatchNum) + 1]
    /\ UNCHANGED ckpt_dir

\* number of checkpoint files kept for the monitor's prefix
KeptFiles == Len(SelectSeq(ckpt_dir, LAMBDA f : f.prefix = monitor._prefix))

\* C9: with keep_checkpoint_max = M > 0 the number of checkpoint files kept for
\* the monitor's prefix never exceeds M after any save performed by
\* CheckpointMonitor.
C9_AtMostMaxKept ==
    (monitor.keep_checkpoint_max > 0 /\ monitor.saves > 0) =>
        KeptFiles <= monitor.keep_checkpoint_max

(***************************************************************************)
(* EvalCallBack (core/callback/callback.py)                                 *)
(***************************************************************************)
\* default of the epoch_interval argument
DefaultEpochInterval == -1

StepIntervals == {-1, 1, 2}

EpochIntervals == {DefaultEpochInterval, 1, 2}

\* EvalCallBack.__init__
EvalCallBack(step_interval, epoch_interval) ==
    [step_interval |-> step_interval, epoch_interval |-> epoch_interval]

\* EvalCallBack.epoch_end: whether _execute_eval runs
epoch_end_evaluates(self, cur_epoch_num) ==
    IF self.epoch_interval <= 0 THEN FALSE
    ELSE cur_epoch_num % self.epoch_interval = 0

\* EvalCallBack.step_end: whether _execute_eval runs
step_end_evaluates(self, cur_step_num) ==
    IF self.step_interval <= 0 THEN FALSE
    ELSE cur_step_num % self.step_interval = 0

EvalStart ==
    /\ \E si \in StepIntervals, ei \in EpochIntervals : eval_cb = EvalCallBack(si, ei)
    /\ eval_run = [cur_epoch_num |-> 0, cur_step_num |-> 0, evals |-> 0]

EvalIdle ==
    /\ eval_cb = EvalCallBack(1, 1)
    /\ eval_run = [cur_epoch_num |-> 0, cur_step_num |-> 0, evals |-> 0]

\* a step ends: step_end(run_context)
eval_step_end ==
    /\ eval_run.cur_step_num < MaxTrainSteps
    /\ LET step == eval_run.cur_step_num + 1
       IN eval_run' = [eval_run EXCEPT
                          !.cur_step_num = step,
                          !.evals = IF step_end_evaluates(eval_cb, step) THEN @ + 1 ELSE @]
    /\ UNCHANGED eval_cb

\* an epoch ends: epoch_end(run_context)
eval_epoch_end ==
    /\ eval_run.cur_epoch_num < MaxTrainEpochs
    /\ LET epoch == eval_run.cur_epoch_num + 1
       IN eval_run' = [eval_run EXCEPT
                          !.cur_epoch_num = epoch,
                          !.evals = IF epoch_end_evaluates(eval_cb, epoch) THEN @ + 1 ELSE @]
    /\ UNCHANGED eval_cb

\* C10: an EvalCallBack created with the default epoch_interval of -1 evaluates
\* on every epoch end: epoch_end calls the evaluation function each time.
C10_EvalEveryEpoch ==
    [][(eval_epoch_end /\ eval_cb.epoch_interval = DefaultEpochInterval)
          => eval_run'.evals = eval_run.evals + 1]_vars

(***************************************************************************)
(* ProfileMonitor (core/callback/callback.py)                               *)
(*                                                                         *)
(* The profiler object is the record of what was asked of it: whether it   *)
(* is collecting, how often it was started, stopped and analysed, and how  *)
(* often stop() reached it while it was not collecting.                    *)
(***************************************************************************)
ProfileSteps == 1..MaxProfileStep

\* cur_step_num of the first step of the run: 1, or later for a resumed run
FirstSteps == 1..MaxFirstStep

\* self.profiler = None
NoProfiler ==
    [present |-> FALSE, running |-> FALSE, n_start |-> 0, n_stop |-> 0,
     n_analyse |-> 0, n_stop_idle |-> 0]

\* Profiler(start_profile=...): collecting from construction iff start_profile
Profiler(start_profile) ==
    [present |-> TRUE, running |-> start_profile,
     n_start |-> IF start_profile THEN 1 ELSE 0, n_stop |-> 0,
     n_analyse |-> 0, n_stop_idle |-> 0]

\* Profiler.start
profiler_start(p) == [p EXCEPT !.running = TRUE, !.n_start = @ + 1]

\* Profiler.stop
profiler_stop(p) ==
    [p EXCEPT !.running = FALSE, !.n_stop = @ + 1,
              !.n_stop_idle = IF p.running THEN @ ELSE @ + 1]

\* Profiler.analyse
profiler_analyse(p) == [p EXCEPT !.n_analyse = @ + 1]

\* ProfileMonitor.__init__; required is _is_profile_required(rank_id)
ProfileMonitor(start_step, stop_step, start_profile, required) ==
    [start_step |-> start_step, stop_step |-> stop_step,
     start_profile |-> start_profile,
     profiler |-> IF required THEN Profiler(start_profile) ELSE NoProfiler]

\* ProfileMonitor.step_begin
ProfileMonitor_step_begin(self, step_num) ==
    IF step_num = self.start_step /\ ~self.start_profile /\ self.profiler.present
    THEN [self EXCEPT !.profiler = profiler_start(@)]
    ELSE self

\* ProfileMonitor.step_end
ProfileMonitor_step_end(self, step_num) ==
    IF step_num = self.stop_step /\ self.profiler.present
    THEN [self EXCEPT !.profiler = profiler_analyse(profiler_stop(@))]
    ELSE self

ProfileStart ==
    /\ \E a \in ProfileSteps, b \in ProfileSteps, sp \in BOOLEAN, rq \in BOOLEAN :
          profile_cb = ProfileMonitor(a, b, sp, rq)
    /\ \E first \in FirstSteps :
          profile_run = [cur_step_num |-> first, in_step |-> FALSE]

ProfileIdle ==
    /\ profile_cb = ProfileMonitor(1, 1, TRUE, FALSE)
    /\ profile_run = [cur_step_num |-> 1, in_step |-> FALSE]

\* a step begins: step_begin(run_context)
profile_step_begin ==
    /\ ~profile_run.in_step
    /\ profile_run.cur_step_num <= MaxProfileStep + 1
    /\ profile_cb' = ProfileMonitor_step_begin(profile_cb, profile_run.cur_step_num)
    /\ profile_run' = [profile_run EXCEPT !.in_step = TRUE]

\* the step ends: step_end(run_context); the next step has the next number
profile_step_end ==
    /\ profile_run.in_step
    /\ profile_cb' = ProfileMonitor_step_end(profile_cb, profile_run.cur_step_num)
    /\ profile_run' = [cur_step_num |-> profile_run.cur_step_num + 1,
                       in_step |-> FALSE]

notGA == <<ddpVars, zeroVars, resumeVars, metaVars, monitorVars, evalVars, profileVars>>

notDDP == <<gaVars, zeroVars, resumeVars, metaVars, monitorVars, evalVars, profileVars>>

notZero == <<gaVars, ddpVars, resumeVars, metaVars, monitorVars, evalVars, profileVars>>

notResume == <<gaVars, ddpVars, zeroVars, metaVars, monitorVars, evalVars, profileVars>>

notMeta == <<gaVars, ddpVars, zeroVars, resumeVars, monitorVars, evalVars, profileVars>>

notMonitor == <<gaVars, ddpVars, zeroVars, resumeVars, metaVars, evalVars, profileVars>>

notEval == <<gaVars, ddpVars, zeroVars, resumeVars, metaVars, monitorVars, profileVars>>

notProfile == <<gaVars, ddpVars, zeroVars, resumeVars, metaVars, monitorVars, evalVars>>

NextGA == GACall /\ UNCHANGED notGA

InitGA ==
    /\ GAStart /\ DDPIdle /\ ZeroIdle /\ ResumeIdle /\ MetaIdle /\ MonitorIdle /\ EvalIdle
    /\ ProfileIdle

SpecGA == InitGA /\ [][NextGA]_vars

NextDDP ==
    \/ ddp_issue_grad_reduce /\ UNCHANGED notDDP
    \/ ddp_final_grad_reduce /\ UNCHANGED notDDP
    \/ ddp_zero_grad_buffer /\ UNCHANGED notDDP
    \/ ddp_no_sync_enter /\ UNCHANGED notDDP
    \/ ddp_body_raise /\ UNCHANGED notDDP
    \/ ddp_no_sync_exit /\ UNCHANGED notDDP

InitDDP ==
    /\ GAIdle /\ DDPStart /\ ZeroIdle /\ ResumeIdle /\ MetaIdle /\ MonitorIdle /\ EvalIdle
    /\ ProfileIdle

SpecDDP == InitDDP /\ [][NextDDP]_vars

NextHook ==
    \/ ddp_param_hook /\ UNCHANGED notDDP
    \/ ddp_set_grad_accumulated /\ UNCHANGED notDDP
    \/ ddp_zero_grad_buffer /\ UNCHANGED notDDP

SpecHook == InitDDP /\ [][NextHook]_vars

NextZero ==
    \/ adamw_init /\ UNCHANGED notZero
    \/ adamw_construct /\ UNCHANGED notZero

InitZero ==
    /\ GAIdle /\ DDPIdle /\ ZeroStart /\ ResumeIdle /\ MetaIdle /\ MonitorIdle /\ EvalIdle
    /\ ProfileIdle

SpecZero == InitZero /\ [][NextZero]_vars

NextResume ==
    \/ fs_add_file /\ UNCHANGED notResume
    \/ fs_make_dir /\ UNCHANGED notResume
    \/ resume_get_list /\ UNCHANGED notResume

InitResume ==
    /\ GAIdle /\ DDPIdle /\ ZeroIdle /\ ResumeStart /\ MetaIdle /\ MonitorIdle /\ EvalIdle
    /\ ProfileIdle

SpecResume == InitResume /\ [][NextResume]_vars

NextMeta == meta_get_minimum /\ UNCHANGED notMeta

InitMeta ==
    /\ GAIdle /\ DDPIdle /\ ZeroIdle /\ ResumeIdle /\ MetaStart /\ MonitorIdle /\ EvalIdle
    /\ ProfileIdle

SpecMeta == InitMeta /\ [][NextMeta]_vars

NextMonitor ==
    \/ monitor_step_save /\ UNCHANGED notMonitor
    \/ monitor_step_skip /\ UNCHANGED notMonitor

InitMonitor ==
    /\ GAIdle /\ DDPIdle /\ ZeroIdle /\ ResumeIdle /\ MetaIdle /\ MonitorStart /\ EvalIdle
    /\ ProfileIdle

SpecMonitor == InitMonitor /\ [][NextMonitor]_vars

NextEval ==
    \/ eval_step_end /\ UNCHANGED notEval
    \/ eval_epoch_end /\ UNCHANGED notEval

InitEval ==
    /\ GAIdle /\ DDPIdle /\ ZeroIdle /\ ResumeIdle /\ MetaIdle /\ MonitorIdle /\ EvalStart
    /\ ProfileIdle

SpecEval == InitEval /\ [][NextEval]_vars

NextProfile ==
    \/ profile_step_begin /\ UNCHANGED notProfile
    \/ profile_step_end /\ UNCHANGED notProfile

InitProfile ==
    /\ GAIdle /\ DDPIdle /\ ZeroIdle /\ ResumeIdle /\ MetaIdle /\ MonitorIdle /\ EvalIdle
    /\ ProfileStart

SpecProfile == InitProfile /\ [][NextProfile]_vars

====
